---- MODULE Spec2Model ----
(***************************************************************************)
(* Model of the trend scanner in src/app.py: the setup classifier          *)
(* (analyze_ticker), the anti-po risk filter (anti_po_filter), the          *)
(* sentiment thermometer and the macro calendar with its alert window.     *)
(*                                                                         *)
(* Numbers.  Prices, moving averages, ATR and RSI are whole numbers here;  *)
(* the fractional constants of the source (0.02, 0.04, 0.06, 0.6, 0.4) are *)
(* kept as hundredths or tenths and every comparison is cross-multiplied,  *)
(* so the arithmetic is exact.  The source computes in binary floating     *)
(* point; rounding error of that arithmetic is not modelled.               *)
(***************************************************************************)
EXTENDS Integers, Sequences, FiniteSets, TLC

VARIABLES
    pc,             \* position of the component under analysis
    df,             \* analyze_ticker: the instrument's frame (or None)
    res,            \* analyze_ticker: the returned record (or None)
    direction,      \* analyze_ticker: local `direction` at line 329 ("unset" before line 281)
    filter_called,  \* analyze_ticker: whether line 333 ran
    motivo_filtro,  \* analyze_ticker: local `motivo_filtro`
    fargs,          \* anti_po_filter: the arguments of a direct call
    fret,           \* anti_po_filter: the returned pair (ok, reason)
    df_results,     \* the frame built from `results` (line 384)
    tm,             \* the thermometer's values (lines 417-463), or None
    today,          \* date.today() of the process clock (line 96)
    months_ahead,   \* argument of generate_macro_events
    MACRO_EVENTS,   \* the generated event list (line 156)
    current_date,   \* argument of get_macro_alerts
    alerts,         \* the list get_macro_alerts returns
    raw_data,       \* the downloaded data of a cycle (line 365), or None
    ticker_i,       \* position of the scan loop in TICKERS (line 376)
    results         \* the records collected by the cycle (line 368)

classVars == <<df, res, direction, filter_called, motivo_filtro>>
filterVars == <<fargs, fret>>
thermoVars == <<df_results, tm>>
calVars == <<today, months_ahead, MACRO_EVENTS, current_date, alerts>>
scanVars == <<raw_data, ticker_i, results>>
vars == <<pc, classVars, filterVars, thermoVars, calVars, scanVars>>

\* Python's None; an optional value is None or a record of another shape
None == [none |-> TRUE]

(***************************************************************************)
(* Strategy constants, src/app.py lines 19-29.                             *)
(***************************************************************************)
MA_LONG == 200
RSI_LOW == 40
RSI_HIGH == 60
\* PULLBACK_TOL = 0.02, SPREAD_CALL_PCT = SPREAD_PUT_PCT = 0.04, in hundredths
PULLBACK_TOL == 2
SPREAD_CALL_PCT == 4
SPREAD_PUT_PCT == 4
\* thresholds of anti_po_filter: 0.06 in hundredths, RSI 75 and 25
ATR_PCT_MAX == 6
RSI_OVERBOUGHT == 75
RSI_OVERSOLD == 25

(***************************************************************************)
(* String formatting.                                                      *)
(***************************************************************************)
Abs(n) == IF n < 0 THEN -n ELSE n

\* f"{x:.0f}" for the rational x = num/den (den > 0): round half to even,
\* the sign kept even when the magnitude rounds to zero ("-0").
Fmt0(num, den) ==
    LET a == Abs(num)
        q == a \div den
        r == a % den
        mag == IF 2 * r > den THEN q + 1
               ELSE IF 2 * r < den THEN q
               ELSE IF q % 2 = 0 THEN q ELSE q + 1
    IN  (IF num < 0 THEN "-" ELSE "") \o ToString(mag)

\* f"{x:.2f}" for a whole number x
Fmt2(x) == ToString(x) \o ".00"

\* "; ".join(reasons)
RECURSIVE Join(_)
Join(reasons) ==
    IF reasons = <<>> THEN ""
    ELSE IF Len(reasons) = 1 THEN reasons[1]
    ELSE reasons[1] \o "; " \o Join(Tail(reasons))

(***************************************************************************)
(* anti_po_filter, src/app.py lines 216-246.  A series is the record      *)
(* [last |-> v] of its .iloc[-1], or None; .iloc on None raises, which the *)
(* except clause turns into the fail-open result.  The returned pair is    *)
(* the record [ok, reason].                                                *)
(***************************************************************************)
\* a slip that makes the ceiling inclusive
AtrPctExtremeInclusive(price, atr) ==
    IF price > 0 THEN atr * 100 >= ATR_PCT_MAX * price ELSE FALSE

\* a slip that drops the price > 0 guard of the ratio
AtrPctExtremeUnguarded(price, atr) == atr * 100 > ATR_PCT_MAX * price

\* curr_atr_pct > 0.06, with curr_atr_pct = atr / price if price > 0 else 0.0
AtrPctExtreme(price, atr) ==
    IF price > 0 THEN atr * 100 > ATR_PCT_MAX * price ELSE FALSE

anti_po_filter(dir, price, rsi_series, atr_series) ==
    IF rsi_series = None \/ atr_series = None
    THEN [ok |-> TRUE, reason |-> "Erro Filtro"]
    ELSE
    LET rsi == rsi_series.last
        atr == atr_series.last
        r1 == IF AtrPctExtreme(price, atr)
              THEN <<"Volatilidade extrema (ATR% > 6%)">> ELSE <<>>
        r2 == IF dir = "bull" /\ rsi > RSI_OVERBOUGHT
              THEN <<"RSI Sobrecomprado (> 75)">> ELSE <<>>
        r3 == IF dir = "bear" /\ rsi < RSI_OVERSOLD
              THEN <<"RSI Sobrevendido (< 25)">> ELSE <<>>
        reasons == r1 \o r2 \o r3
        ok == r1 = <<>> /\ r2 = <<>> /\ r3 = <<>>
    IN  IF reasons = <<>> THEN [ok |-> TRUE, reason |-> "-"]
        ELSE [ok |-> ok, reason |-> Join(reasons)]

(***************************************************************************)
(* analyze_ticker, src/app.py lines 249-348.  A frame d carries its number *)
(* of bars and the last values of the indicator series that lines 258-273  *)
(* read (the indicator library itself is outside the repository).          *)
(***************************************************************************)
\* lines 275-282: the defaults, kept when no branch assigns
Aguardar ==
    [sugestao |-> "Aguardar", motivo |-> "-", vencimento |-> "-",
     strike_alvo |-> "-", cor_fundo |-> "#ffffff", cor_texto |-> "#000000",
     direction |-> "none", score |-> 0]

\* lines 287-293
LongCall(d) ==
    [sugestao |-> "COMPRA CALL (Seco)", motivo |-> "Rompimento Explosivo",
     vencimento |-> "Curto (15-30d)",
     strike_alvo |-> "$" \o Fmt0(d.price, 1) \o " (ATM)",
     cor_fundo |-> "#b6d7a8", cor_texto |-> "#000000",
     direction |-> "bull", score |-> 2]

\* lines 295-304: strike_long = price, strike_short = price * (1 + SPREAD_CALL_PCT)
BullCallSpread(d) ==
    [sugestao |-> "TRAVA DE ALTA (Call Spread)", motivo |-> "Pullback (Correção)",
     vencimento |-> "Médio (30-45d)",
     strike_alvo |-> "C:$" \o Fmt0(d.price, 1) \o " / V:$"
                     \o Fmt0(d.price * (100 + SPREAD_CALL_PCT), 100),
     cor_fundo |-> "#38761d", cor_texto |-> "#ffffff",
     direction |-> "bull", score |-> 1]

\* lines 309-315
LongPut(d) ==
    [sugestao |-> "COMPRA PUT (Seco)", motivo |-> "Perda de Suporte",
     vencimento |-> "Curto (15-30d)",
     strike_alvo |-> "$" \o Fmt0(d.price, 1) \o " (ATM)",
     cor_fundo |-> "#ea9999", cor_texto |-> "#000000",
     direction |-> "bear", score |-> -2]

\* lines 317-326: strike_short = price * (1 - SPREAD_PUT_PCT)
BearPutSpread(d) ==
    [sugestao |-> "TRAVA DE BAIXA (Put Spread)", motivo |-> "Repique p/ Cair",
     vencimento |-> "Médio (30-45d)",
     strike_alvo |-> "C:$" \o Fmt0(d.price, 1) \o " / V:$"
                     \o Fmt0(d.price * (100 - SPREAD_PUT_PCT), 100),
     cor_fundo |-> "#990000", cor_texto |-> "#ffffff",
     direction |-> "bear", score |-> -1]

\* line 294: price <= ma20 * (1 + PULLBACK_TOL) and RSI_LOW < rsi < RSI_HIGH
BullPullback(d) ==
    /\ d.price * 100 <= d.ma20 * (100 + PULLBACK_TOL)
    /\ RSI_LOW < d.rsi /\ d.rsi < RSI_HIGH

\* a slip that mirrors the wrong side of the average
BearPullbackSameSide(d) ==
    /\ d.price * 100 >= d.ma20 * (100 + PULLBACK_TOL)
    /\ RSI_LOW < d.rsi /\ d.rsi < RSI_HIGH

\* line 316: price >= ma20 * (1 - PULLBACK_TOL) and RSI_LOW < rsi < RSI_HIGH
BearPullback(d) ==
    /\ d.price * 100 >= d.ma20 * (100 - PULLBACK_TOL)
    /\ RSI_LOW < d.rsi /\ d.rsi < RSI_HIGH

\* a slip that tests the pullback before the breakout
BullSetupPullbackFirst(d) ==
    IF BullPullback(d) THEN BullCallSpread(d)
    ELSE IF d.price > d.prev_high_20 THEN LongCall(d)
    ELSE Aguardar

\* lines 286-304: inside the bull trend, breakout first, then pullback
BullSetup(d) ==
    IF d.price > d.prev_high_20 THEN LongCall(d)
    ELSE IF BullPullback(d) THEN BullCallSpread(d)
    ELSE Aguardar

\* lines 308-326: inside the bear trend, breakdown first, then pullback
BearSetup(d) ==
    IF d.price < d.prev_low_20 THEN LongPut(d)
    ELSE IF BearPullback(d) THEN BearPutSpread(d)
    ELSE Aguardar

\* lines 275-326: the setup chosen for the snapshot
Setup(d) ==
    IF d.price > d.ma200 /\ d.ma50 > d.ma200 THEN BullSetup(d)
    ELSE IF d.price < d.ma200 /\ d.ma50 < d.ma200 THEN BearSetup(d)
    ELSE Aguardar

\* a slip that consults the filter for every record
FilterStepAlways(d, s) ==
    [called |-> TRUE,
     out |-> anti_po_filter(s.direction, d.price, [last |-> d.rsi], [last |-> d.atr])]

\* lines 328-333: the filter is consulted only for a direction other than "none"
FilterStep(d, s) ==
    IF s.direction = "none"
    THEN [called |-> FALSE, out |-> [ok |-> TRUE, reason |-> "-"]]
    ELSE [called |-> TRUE,
          out |-> anti_po_filter(s.direction, d.price,
                                 [last |-> d.rsi], [last |-> d.atr])]

\* lines 250-252: no record for a missing, empty or short frame
NoRecord(d) == d = None \/ d.len = 0 \/ d.len < MA_LONG + 5

\* lines 254-256: reading a column the frame lacks raises KeyError, which
\* the except clause of lines 347-348 turns into None.  A frame that lacks a
\* column carries the field `missing`; every other frame is complete.
Raises(d) == "missing" \in DOMAIN d

\* the whole call: the returned value and the locals the filter step reads
analyze_frame(ticker, d) ==
    IF NoRecord(d) \/ Raises(d)
    THEN [ret |-> None, direction |-> "unset", called |-> FALSE,
          motivo_filtro |-> "unset"]
    ELSE LET s == Setup(d)
             f == FilterStep(d, s)
         IN  [ret |-> [Ticker |-> ticker,
                       Preco |-> "$" \o Fmt2(d.price),
                       Estrategia |-> s.sugestao,
                       Strikes |-> s.strike_alvo,
                       Vencimento |-> s.vencimento,
                       Motivo |-> s.motivo,
                       Filtro_OK |-> f.out.ok,
                       Score |-> s.score,
                       cor_fundo |-> s.cor_fundo,
                       cor_texto |-> s.cor_texto],
              direction |-> s.direction,
              called |-> f.called,
              motivo_filtro |-> f.out.reason]

analyze_ticker(ticker, d) == analyze_frame(ticker, d).ret

(***************************************************************************)
(* Exact fractions [n, d] with d > 0, kept in lowest terms.                *)
(***************************************************************************)
RECURSIVE Gcd(_, _)
Gcd(a, b) == IF b = 0 THEN a ELSE Gcd(b, a % b)

Frac(n, d) ==
    LET g == Gcd(Abs(n), d) IN [n |-> n \div g, d |-> d \div g]
FAdd(a, b) == Frac(a.n * b.d + b.n * a.d, a.d * b.d)
FMul(a, b) == Frac(a.n * b.n, a.d * b.d)
FLe(a, b) == a.n * b.d <= b.n * a.d
FLt(a, b) == a.n * b.d < b.n * a.d

(***************************************************************************)
(* The sentiment thermometer, src/app.py lines 408-463.  The frame is the  *)
(* number of rows it holds of each kind [Score, Filtro_OK]: the            *)
(* thermometer reads only len(), the sums of the masks and the mean of the *)
(* Score column, none of which depends on the order of the rows.           *)
(***************************************************************************)
\* a wait record (Score 0) is never rejected: lines 329-331
Kinds ==
    {k \in [Score : {-2, -1, 0, 1, 2}, Filtro_OK : BOOLEAN] :
        k.Score = 0 => k.Filtro_OK}

RECURSIVE SumOver(_, _)
SumOver(f, S) ==
    IF S = {} THEN 0
    ELSE LET k == CHOOSE x \in S : TRUE IN f[k] + SumOver(f, S \ {k})

\* len(frame)
Rows(frame) == SumOver(frame, Kinds)

\* line 410: df_results[df_results["Filtro_OK"] == True]
df_valid(frame) == [k \in Kinds |-> IF k.Filtro_OK THEN frame[k] ELSE 0]

\* lines 418-422: (Score > 0).sum() and (Score < 0).sum()
bull_count(valid) == SumOver(valid, {k \in Kinds : k.Score > 0})
bear_count(valid) == SumOver(valid, {k \in Kinds : k.Score < 0})

\* the sum of the Score column, the numerator of .mean() at line 429
ScoreSum(valid) == SumOver([k \in Kinds |-> k.Score * valid[k]], Kinds)

\* a slip in the weights: 0.6 and 0.6
CompositeHeavy(dir_balance, avg_strength_norm) ==
    FAdd(FMul(Frac(6, 10), dir_balance), FMul(Frac(6, 10), avg_strength_norm))

\* line 437: m = 0.6 * dir_balance + 0.4 * avg_strength_norm
Composite(dir_balance, avg_strength_norm) ==
    FAdd(FMul(Frac(6, 10), dir_balance), FMul(Frac(4, 10), avg_strength_norm))

\* line 441: max(0, min(100, tm_score))
Clamp(x) ==
    LET lo == IF FLt(Frac(100, 1), x) THEN Frac(100, 1) ELSE x
    IN  IF FLt(Frac(0, 1), lo) THEN lo ELSE Frac(0, 1)

\* a slip that makes the upper thresholds exclusive
LabelExclusive(tm_score) ==
    IF FLt(Frac(80, 1), tm_score) THEN "EUFORIA (ALTA FORTE)"
    ELSE IF FLt(Frac(60, 1), tm_score) THEN "VIÉS DE ALTA"
    ELSE IF FLe(tm_score, Frac(20, 1)) THEN "PÂNICO / BAIXA FORTE"
    ELSE IF FLe(tm_score, Frac(40, 1)) THEN "VIÉS DE BAIXA"
    ELSE "NEUTRO / EQUILIBRADO"

\* lines 444-463
Label(tm_score) ==
    IF FLe(Frac(80, 1), tm_score) THEN "EUFORIA (ALTA FORTE)"
    ELSE IF FLe(Frac(60, 1), tm_score) THEN "VIÉS DE ALTA"
    ELSE IF FLe(tm_score, Frac(20, 1)) THEN "PÂNICO / BAIXA FORTE"
    ELSE IF FLe(tm_score, Frac(40, 1)) THEN "VIÉS DE BAIXA"
    ELSE "NEUTRO / EQUILIBRADO"

\* lines 417-463, for a non-empty df_valid
Thermometer(valid) ==
    LET total_sinais == Rows(valid)
        bulls == bull_count(valid)
        bears == bear_count(valid)
        avg_strength_raw == Frac(ScoreSum(valid), total_sinais)
        avg_strength_norm == FMul(avg_strength_raw, Frac(1, 2))
        dir_balance == Frac(bulls - bears, total_sinais)
        m == Composite(dir_balance, avg_strength_norm)
        unclamped == FMul(FAdd(m, Frac(1, 1)), Frac(50, 1))
        tm_score == Clamp(unclamped)
    IN  [total_sinais |-> total_sinais,
         bull_count |-> bulls,
         bear_count |-> bears,
         flat_count |-> total_sinais - bulls - bears,
         pct_bull |-> Frac(bulls, total_sinais),
         pct_bear |-> Frac(bears, total_sinais),
         avg_strength_raw |-> avg_strength_raw,
         avg_strength_norm |-> avg_strength_norm,
         dir_balance |-> dir_balance,
         m |-> m,
         unclamped |-> unclamped,
         tm_score |-> tm_score,
         label |-> Label(tm_score)]

\* lines 408 and 412: nothing is computed for an empty frame
Sentiment(frame) ==
    IF Rows(frame) = 0 \/ Rows(df_valid(frame)) = 0 THEN None
    ELSE Thermometer(df_valid(frame))

ThermoIdle == df_results = [k \in Kinds |-> 0] /\ tm = None

(***************************************************************************)
(* Dates.  A date is [year, month, day]; weekday(), timedelta arithmetic   *)
(* and date subtraction go through the proleptic Gregorian ordinal as      *)
(* datetime.date does.  Weekdays: 0 = Monday ... 6 = Sunday.               *)
(***************************************************************************)
date(y, m, d) == [year |-> y, month |-> m, day |-> d]

IsLeap(y) == y % 4 = 0 /\ (y % 100 # 0 \/ y % 400 = 0)

\* calendar.monthrange(year, month)[1]
DaysInMonth(y, m) ==
    IF m = 2 THEN (IF IsLeap(y) THEN 29 ELSE 28)
    ELSE IF m \in {4, 6, 9, 11} THEN 30 ELSE 31

RECURSIVE DaysBeforeMonth(_, _)
DaysBeforeMonth(y, m) ==
    IF m = 1 THEN 0 ELSE DaysBeforeMonth(y, m - 1) + DaysInMonth(y, m - 1)

DaysBeforeYear(y) ==
    LET p == y - 1 IN p * 365 + (p \div 4) - (p \div 100) + (p \div 400)

\* date.toordinal()
toordinal(d) == DaysBeforeYear(d.year) + DaysBeforeMonth(d.year, d.month) + d.day

\* date.fromordinal(n)
fromordinal(ord) ==
    LET n0 == ord - 1
        n400 == n0 \div 146097
        r400 == n0 % 146097
        n100 == r400 \div 36524
        r100 == r400 % 36524
        n4 == r100 \div 1461
        r4 == r100 % 1461
        n1 == r4 \div 365
        n == r4 % 365
        y == n400 * 400 + 1 + n100 * 100 + n4 * 4 + n1
    IN  IF n1 = 4 \/ n100 = 4 THEN date(y - 1, 12, 31)
        ELSE LET m0 == (n + 50) \div 32
                 m == IF DaysBeforeMonth(y, m0) > n THEN m0 - 1 ELSE m0
             IN  date(y, m, n - DaysBeforeMonth(y, m) + 1)

\* date.weekday()
weekday(d) == (toordinal(d) + 6) % 7

\* d + timedelta(days=n)
AddDays(d, n) == fromordinal(toordinal(d) + n)

\* (a - b).days
DaysBetween(a, b) == toordinal(a) - toordinal(b)

\* strftime("%Y-%m-%d") and strptime(..., "%Y-%m-%d").date(): the text of a
\* date is the tuple of its three fields
strftime(d) == <<d.year, d.month, d.day>>
strptime(t) == date(t[1], t[2], t[3])

(***************************************************************************)
(* Calendar helpers, src/app.py lines 52-82.                               *)
(***************************************************************************)
RECURSIVE FirstWeekdayFrom(_, _, _, _)
FirstWeekdayFrom(year, month, wd, day) ==
    IF day > 7 THEN date(year, month, 1)
    ELSE IF weekday(date(year, month, day)) = wd THEN date(year, month, day)
    ELSE FirstWeekdayFrom(year, month, wd, day + 1)

\* lines 52-61
first_weekday(year, month, wd) == FirstWeekdayFrom(year, month, wd, 1)

RECURSIVE LastWeekdayFrom(_, _, _, _, _)
LastWeekdayFrom(year, month, wd, day, last_day) ==
    IF day <= last_day - 7 THEN date(year, month, last_day)
    ELSE IF weekday(date(year, month, day)) = wd THEN date(year, month, day)
    ELSE LastWeekdayFrom(year, month, wd, day - 1, last_day)

\* a slip that searches the first week of the month instead of the last
last_weekday_first_week(year, month, wd) == FirstWeekdayFrom(year, month, wd, 1)

\* lines 64-73
last_weekday(year, month, wd) ==
    LET last_day == DaysInMonth(year, month)
    IN  LastWeekdayFrom(year, month, wd, last_day, last_day)

\* lines 76-82
nth_weekday(year, month, wd, n) ==
    AddDays(first_weekday(year, month, wd), 7 * (n - 1))

(***************************************************************************)
(* generate_macro_events, src/app.py lines 85-141.                         *)
(***************************************************************************)
\* lines 103-105 without the year carry
TargetMonthNoCarry(t, i) ==
    LET month == t.month + i
    IN  [year |-> t.year, month |-> ((month - 1) % 12) + 1]

\* lines 103-105: the month and year of loop index i
TargetMonth(t, i) ==
    LET month == t.month + i
    IN  [year |-> t.year + (month - 1) \div 12, month |-> ((month - 1) % 12) + 1]

Event(name, d, impact) == [name |-> name, date |-> strftime(d), impact |-> impact]

\* lines 107-139: the events appended in one iteration of the loop
MonthEvents(t, i) ==
    LET ym == TargetMonth(t, i)
        year == ym.year
        month == ym.month
        payroll_date == first_weekday(year, month, 4)
        first_wed == first_weekday(year, month, 2)
        cpi_date == AddDays(first_wed, 7)
        pce_date == last_weekday(year, month, 4)
    IN  <<Event("Payroll", payroll_date, -2),
          Event("CPI", cpi_date, -2),
          Event("PCE", pce_date, -2)>>
        \o (IF i % 2 = 0
            THEN <<Event("Decisão de Juros (FOMC)", nth_weekday(year, month, 2, 3), -3)>>
            ELSE <<>>)

RECURSIVE GenerateFrom(_, _, _)
GenerateFrom(t, i, n) ==
    IF i >= n THEN <<>> ELSE MonthEvents(t, i) \o GenerateFrom(t, i + 1, n)

\* lines 96-141, with date.today() = t
generate_macro_events(t, n) == GenerateFrom(t, 0, n)

(***************************************************************************)
(* get_macro_alerts, src/app.py lines 147-184.                             *)
(***************************************************************************)
NEWS_WINDOW_DAYS == 3

\* EVENT_GUIDE.get(name, "Alta volatilidade esperada."), the texts shortened
EventGuide(name) ==
    IF name = "Payroll" THEN "O Payroll mede a criação de empregos nos EUA."
    ELSE IF name = "CPI" THEN "Índice de Inflação ao Consumidor."
    ELSE IF name = "Decisão de Juros (FOMC)" THEN "O evento mais importante do mundo."
    ELSE IF name = "PCE" THEN "A medida de inflação preferida do Fed."
    ELSE "Alta volatilidade esperada."

\* a slip that leaves out the day of the event itself
InWindowExclusive(days_until) == 0 < days_until /\ days_until <= NEWS_WINDOW_DAYS

\* line 175
InWindow(days_until) == 0 <= days_until /\ days_until <= NEWS_WINDOW_DAYS

RECURSIVE AlertsFrom(_, _)
AlertsFrom(events, cur) ==
    IF events = <<>> THEN <<>>
    ELSE LET ev == Head(events)
             ev_date == strptime(ev.date)
             days_until == DaysBetween(ev_date, cur)
         IN  (IF InWindow(days_until)
              THEN <<[event |-> <<ev.name, ev.date>>, days |-> days_until,
                      guide |-> EventGuide(ev.name)]>>
              ELSE <<>>)
             \o AlertsFrom(Tail(events), cur)

\* lines 161-184; a missing date is replaced by the clock's date t
get_macro_alerts(events, cur, t) ==
    AlertsFrom(events, IF cur = None THEN t ELSE cur)

CalIdle ==
    /\ today = None /\ months_ahead = 0 /\ MACRO_EVENTS = <<>>
    /\ current_date = None /\ alerts = <<>>

(***************************************************************************)
(* The scan cycle, src/app.py lines 203-213 and 368-384.  raw_data is None *)
(* or [empty, index_last, cols]: cols[i] is the frame downloaded for       *)
(* TICKERS[i], or Absent when the download has no column group for it.     *)
(* The download of a list of tickers has MultiIndex columns, so the        *)
(* single-level branch of line 213 is not taken.                           *)
(***************************************************************************)
\* line 34
TICKERS ==
    <<"SPY", "QQQ", "IWM", "DIA", "GLD", "SLV", "TLT", "USO", "VOO", "XLF",
      "AAPL", "MSFT", "GOOGL", "AMZN", "NVDA",
      "XLE", "XLU", "XLI", "XLB", "XLP", "XLY", "XLV", "XBI", "VNQ", "EEM",
      "AMD", "TSLA", "CRM", "INTC", "JPM", "BAC", "V", "GS", "UNH", "JNJ",
      "PFE", "HD", "MCD", "NKE", "WMT", "COST", "PG", "CAT", "BA", "XOM">>

Absent == [absent |-> TRUE]

\* pd.DataFrame()
EmptyDataFrame == [len |-> 0]

\* lines 203-211
get_ticker_df(raw, i) ==
    IF raw = None \/ raw.empty THEN EmptyDataFrame
    ELSE IF raw.cols[i] = Absent THEN EmptyDataFrame
    ELSE raw.cols[i]

\* a slip that appends whatever analyze_ticker returns
ScanBodyAppendAlways(rs, i, df_t) ==
    IF df_t.len = 0 THEN rs
    ELSE Append(rs, analyze_ticker(TICKERS[i], df_t))

\* lines 378-382: the records after the loop body has run for TICKERS[i]
ScanBody(rs, i, df_t) ==
    IF df_t.len = 0 THEN rs
    ELSE LET r == analyze_ticker(TICKERS[i], df_t)
         IN  IF r # None THEN Append(rs, r) ELSE rs

\* line 384: the frame of the records, as the number of rows of each kind
RECURSIVE DataFrameOf(_)
DataFrameOf(rs) ==
    IF rs = <<>> THEN [k \in Kinds |-> 0]
    ELSE LET k == [Score |-> Head(rs).Score, Filtro_OK |-> Head(rs).Filtro_OK]
         IN  [DataFrameOf(Tail(rs)) EXCEPT ![k] = @ + 1]

ScanIdle == raw_data = None /\ ticker_i = 0 /\ results = <<>>

(***************************************************************************)
(* Inputs of the classifier.                                               *)
(***************************************************************************)
Prices == {-1, 0, 90, 94, 100, 106, 110}
Ma20s == {91, 100, 105, 108}
Ma50s == {95, 100, 103, 105}
Ma200s == {-5, 100}
Rsis == {10, 25, 40, 50, 55, 60, 75, 80}
Atrs == {0, 6, 7, 9}
PrevHighs == {95, 109, 115}
PrevLows == {85, 91, 105}

AllFrames ==
    {[len |-> n, price |-> p, ma20 |-> a, ma50 |-> b, ma200 |-> c, rsi |-> r,
      atr |-> t, prev_high_20 |-> h, prev_low_20 |-> l] :
        n \in {205, 252}, p \in Prices, a \in Ma20s, b \in Ma50s, c \in Ma200s,
        r \in Rsis, t \in Atrs,
        h \in PrevHighs, l \in PrevLows}

\* the channel low never lies above the channel high
Frames == {d \in AllFrames : d.prev_low_20 <= d.prev_high_20}

ShortFrames ==
    {[len |-> n, price |-> p, ma20 |-> 100, ma50 |-> 100, ma200 |-> 100, rsi |-> 50,
      atr |-> 0, prev_high_20 |-> 109, prev_low_20 |-> 91] :
        n \in {0, 204}, p \in Prices}

FilterIdle == fargs = None /\ fret = None
ClassIdle ==
    /\ df = None /\ res = None /\ direction = "unset"
    /\ filter_called = FALSE /\ motivo_filtro = "unset"

(***************************************************************************)
(* Spec: one call of analyze_ticker on a frame.                            *)
(***************************************************************************)
Init ==
    /\ pc = "call"
    /\ df \in Frames \cup ShortFrames \cup {None}
    /\ res = None /\ direction = "unset"
    /\ filter_called = FALSE /\ motivo_filtro = "unset"
    /\ FilterIdle /\ ThermoIdle /\ CalIdle /\ ScanIdle

Analyze ==
    /\ pc = "call"
    /\ LET f == analyze_frame("SPY", df)
       IN  /\ res' = f.ret
           /\ direction' = f.direction
           /\ filter_called' = f.called
           /\ motivo_filtro' = f.motivo_filtro
    /\ pc' = "done"
    /\ UNCHANGED <<df, filterVars, thermoVars, calVars, scanVars>>

Next == Analyze

Spec == Init /\ [][Next]_vars

(***************************************************************************)
(* SpecFilter: one direct call of anti_po_filter.                          *)
(***************************************************************************)
Series(vals) == {[last |-> v] : v \in vals} \cup {None}

InitFilter ==
    /\ pc = "call"
    /\ fargs \in [direction : {"bull", "bear"}, price : Prices,
                  rsi_series : Series(Rsis), atr_series : Series(Atrs)]
    /\ fret = None
    /\ ClassIdle /\ ThermoIdle /\ CalIdle /\ ScanIdle

CallFilter ==
    /\ pc = "call"
    /\ fret' = anti_po_filter(fargs.direction, fargs.price,
                              fargs.rsi_series, fargs.atr_series)
    /\ pc' = "done"
    /\ UNCHANGED <<classVars, fargs, thermoVars, calVars, scanVars>>

NextFilter == CallFilter

SpecFilter == InitFilter /\ [][NextFilter]_vars

(***************************************************************************)
(* SpecThermo: records are appended to the results of a cycle (line 382),  *)
(* then the thermometer is computed from the frame.                        *)
(***************************************************************************)
MaxResults == 20
MaxRejected == 1

InitThermo ==
    /\ pc = "scan"
    /\ ThermoIdle
    /\ ClassIdle /\ FilterIdle /\ CalIdle /\ ScanIdle

AppendResult ==
    /\ pc = "scan"
    /\ Rows(df_results) < MaxResults
    /\ \E k \in Kinds :
          /\ ~k.Filtro_OK => Rows(df_results) - Rows(df_valid(df_results)) < MaxRejected
          /\ df_results' = [df_results EXCEPT ![k] = @ + 1]
    /\ UNCHANGED <<pc, tm, classVars, filterVars, calVars, scanVars>>

ComputeThermometer ==
    /\ pc = "scan"
    /\ tm' = Sentiment(df_results)
    /\ pc' = "done"
    /\ UNCHANGED <<df_results, classVars, filterVars, calVars, scanVars>>

NextThermo == AppendResult \/ ComputeThermometer

SpecThermo == InitThermo /\ [][NextThermo]_vars

(***************************************************************************)
(* SpecCalendar: the event list is generated from the process clock, then  *)
(* the alerts are computed for a reference date.                           *)
(***************************************************************************)
NumYears == 28
MaxMonthsAhead == 6
RefBack == 5
RefAhead == 40

Todays ==
    {date(y, m, d) : y \in 2024..(2024 + NumYears - 1), m \in 1..12, d \in {1, 28}}

InitCalendar ==
    /\ pc = "import"
    /\ today \in Todays
    /\ months_ahead \in 1..MaxMonthsAhead
    /\ MACRO_EVENTS = <<>> /\ current_date = None /\ alerts = <<>>
    /\ ClassIdle /\ FilterIdle /\ ThermoIdle /\ ScanIdle

GenerateEvents ==
    /\ pc = "import"
    /\ MACRO_EVENTS' = generate_macro_events(today, months_ahead)
    /\ pc' = "loaded"
    /\ UNCHANGED <<today, months_ahead, current_date, alerts,
                   classVars, filterVars, thermoVars, scanVars>>

GetAlerts ==
    /\ pc = "loaded"
    /\ \E cur \in {AddDays(today, k) : k \in (-RefBack)..RefAhead} \cup {None} :
          /\ current_date' = cur
          /\ alerts' = get_macro_alerts(MACRO_EVENTS, cur, today)
    /\ pc' = "done"
    /\ UNCHANGED <<today, months_ahead, MACRO_EVENTS,
                   classVars, filterVars, thermoVars, scanVars>>

NextCalendar == GenerateEvents \/ GetAlerts

SpecCalendar == InitCalendar /\ [][NextCalendar]_vars

(***************************************************************************)
(* SpecScan: one scan cycle over the first NumTickers instruments of       *)
(* TICKERS.  The event list was generated when the module was loaded       *)
(* (line 156); the program runs its loop to the end, hence the fairness.   *)
(***************************************************************************)
NumTickers == 3

\* a breakout that the filter approves and one that it rejects (RSI 80)
GoodFrames ==
    {d \in Frames : /\ d.len = 205 /\ d.price = 110 /\ d.ma20 = 108 /\ d.ma50 = 105
                    /\ d.ma200 = 100 /\ d.atr = 0 /\ d.prev_high_20 = 109
                    /\ d.prev_low_20 = 91 /\ d.rsi \in {50, 80}}

\* what the download can hold for one instrument
Downloads ==
    GoodFrames
    \cup {Absent, [len |-> 0], [len |-> 204], [len |-> 205, missing |-> "High"]}

InitScan ==
    /\ pc = "start"
    /\ today = date(2026, 3, 1)
    /\ months_ahead = 6
    /\ MACRO_EVENTS = generate_macro_events(today, months_ahead)
    /\ current_date = None /\ alerts = <<>>
    /\ raw_data \in
          {None, [empty |-> TRUE, index_last |-> None, cols |-> <<>>]}
          \cup {[empty |-> FALSE, index_last |-> d, cols |-> c] :
                   d \in {AddDays(today, -2), today},
                   c \in [1..NumTickers -> Downloads]}
    /\ ticker_i = 0 /\ results = <<>>
    /\ ClassIdle /\ FilterIdle /\ ThermoIdle

\* lines 368-374
StartScan ==
    /\ pc = "start"
    /\ results' = <<>>
    /\ IF raw_data # None /\ ~raw_data.empty
       THEN /\ current_date' = raw_data.index_last
            /\ alerts' = get_macro_alerts(MACRO_EVENTS, raw_data.index_last, today)
            /\ ticker_i' = 1
            /\ pc' = "loop"
       ELSE /\ alerts' = <<>>
            /\ UNCHANGED <<current_date, ticker_i>>
            /\ pc' = "collect"
    /\ UNCHANGED <<today, months_ahead, MACRO_EVENTS, raw_data,
                   classVars, filterVars, thermoVars>>

\* lines 376-382: one iteration of the loop
ScanTicker ==
    /\ pc = "loop"
    /\ ticker_i <= NumTickers
    /\ results' = ScanBody(results, ticker_i, get_ticker_df(raw_data, ticker_i))
    /\ ticker_i' = ticker_i + 1
    /\ UNCHANGED <<pc, raw_data, calVars, classVars, filterVars, thermoVars>>

\* line 376: the loop is exhausted
EndLoop ==
    /\ pc = "loop"
    /\ ticker_i > NumTickers
    /\ pc' = "collect"
    /\ UNCHANGED <<scanVars, calVars, classVars, filterVars, thermoVars>>

\* line 384
BuildFrame ==
    /\ pc = "collect"
    /\ df_results' = DataFrameOf(results)
    /\ pc' = "done"
    /\ UNCHANGED <<tm, scanVars, calVars, classVars, filterVars>>

NextScan == StartScan \/ ScanTicker \/ EndLoop \/ BuildFrame

SpecScan == InitScan /\ [][NextScan]_vars /\ WF_vars(NextScan)

(***************************************************************************)
(* Properties of analyze_ticker, checked under Spec.                       *)
(***************************************************************************)
\* the call has returned for a frame with at least MA_LONG + 5 bars
Analyzed == pc = "done" /\ df # None /\ df.len >= MA_LONG + 5
BullTrend == df.price > df.ma200 /\ df.ma50 > df.ma200
BearTrend == df.price < df.ma200 /\ df.ma50 < df.ma200
RsiInBand == 40 < df.rsi /\ df.rsi < 60
BullBreakoutPred == df.price > df.prev_high_20
BullPullbackPred == 100 * df.price <= 102 * df.ma20 /\ RsiInBand
BearBreakoutPred == df.price < df.prev_low_20
BearPullbackPred == 100 * df.price >= 98 * df.ma20 /\ RsiInBand

IsWait == res.Estrategia = "Aguardar" /\ res.Score = 0 /\ res.Vencimento = "-"
IsLongCall ==
    /\ res.Estrategia = "COMPRA CALL (Seco)" /\ res.Score = 2
    /\ res.Vencimento = "Curto (15-30d)"
    /\ res.Strikes = "$" \o ToString(df.price) \o " (ATM)"
IsBullCallSpread ==
    /\ res.Estrategia = "TRAVA DE ALTA (Call Spread)" /\ res.Score = 1
    /\ res.Vencimento = "Médio (30-45d)"
    /\ res.Strikes = "C:$" \o ToString(df.price) \o " / V:$" \o Fmt0(104 * df.price, 100)
IsLongPut ==
    /\ res.Estrategia = "COMPRA PUT (Seco)" /\ res.Score = -2
    /\ res.Vencimento = "Curto (15-30d)"
    /\ res.Strikes = "$" \o ToString(df.price) \o " (ATM)"
IsBearPutSpread ==
    /\ res.Estrategia = "TRAVA DE BAIXA (Put Spread)" /\ res.Score = -1
    /\ res.Vencimento = "Médio (30-45d)"
    /\ res.Strikes = "C:$" \o ToString(df.price) \o " / V:$" \o Fmt0(96 * df.price, 100)

\* C1: every frame with sufficient history gets exactly one setup, by
\* priority: in a bull trend the breakout (long call, +2, short expiry, ATM
\* strike) whatever the pullback condition says, else the pullback (bull call
\* spread, +1, medium expiry, legs price and price*1.04), else wait (0); the
\* bear trend symmetrically; neither trend gives wait.  The score is in
\* {-2..2} and is nonzero exactly when the label is not wait.
C1_SetupByPriority ==
    Analyzed =>
        /\ res # None
        /\ BullTrend /\ BullBreakoutPred => IsLongCall
        /\ BullTrend /\ ~BullBreakoutPred /\ BullPullbackPred => IsBullCallSpread
        /\ BullTrend /\ ~BullBreakoutPred /\ ~BullPullbackPred => IsWait
        /\ BearTrend /\ BearBreakoutPred => IsLongPut
        /\ BearTrend /\ ~BearBreakoutPred /\ BearPullbackPred => IsBearPutSpread
        /\ BearTrend /\ ~BearBreakoutPred /\ ~BearPullbackPred => IsWait
        /\ ~BullTrend /\ ~BearTrend => IsWait
        /\ res.Score \in {-2, -1, 0, 1, 2}
        /\ (res.Score # 0) <=> (res.Estrategia # "Aguardar")
        /\ (df.price = 106 /\ df.ma20 = 105 /\ df.ma50 = 103 /\ df.ma200 = 100
            /\ df.rsi = 55 /\ df.prev_high_20 = 109)
           => res.Strikes = "C:$106 / V:$110" /\ res.Score = 1

\* a bear pullback without breakdown (price 90, ma20 91) has been classified
C1_Witness ==
    /\ Analyzed /\ BearTrend /\ ~BearBreakoutPred /\ BearPullbackPred
    /\ df.price = 90 /\ df.ma20 = 91
    /\ res.Estrategia = "TRAVA DE BAIXA (Put Spread)" /\ res.Strikes = "C:$90 / V:$86"

\* C2 as stated: the direction is the trend (bull iff price > ma200 and
\* ma50 > ma200, bear iff price < ma200 and ma50 < ma200, none otherwise)
\* whether or not a sub-condition matched, and the filter is evaluated for
\* every record in a bull or bear trend, wait records included.
C2_DirectionIsTrend ==
    Analyzed =>
        /\ (direction = "bull") <=> BullTrend
        /\ (direction = "bear") <=> BearTrend
        /\ filter_called <=> (BullTrend \/ BearTrend)

\* C2 amended: the direction is bull (bear) iff the trend is bull (bear) and
\* a breakout or pullback sub-condition matched, none otherwise; the filter
\* is evaluated exactly for the records whose label is not wait, and a wait
\* record is approved without the filter being consulted.
C2_DirectionIsSetup ==
    Analyzed =>
        /\ (direction = "bull") <=> (BullTrend /\ (BullBreakoutPred \/ BullPullbackPred))
        /\ (direction = "bear") <=> (BearTrend /\ (BearBreakoutPred \/ BearPullbackPred))
        /\ direction \in {"bull", "bear", "none"}
        /\ filter_called <=> (direction # "none")
        /\ filter_called <=> (res.Estrategia # "Aguardar")
        /\ res.Estrategia = "Aguardar" => res.Filtro_OK /\ motivo_filtro = "-"

\* a wait record in a bull trend with ATR above 6% of the price: the filter
\* is not consulted and the record is approved
C2_Witness ==
    /\ Analyzed /\ BullTrend /\ ~BullBreakoutPred /\ ~BullPullbackPred
    /\ df.price > 0 /\ 100 * df.atr > 6 * df.price
    /\ direction = "none" /\ ~filter_called /\ res.Filtro_OK

\* C3 as stated: no frame in a bull trend satisfies both the breakout and
\* the pullback predicate, and none in a bear trend satisfies both either.
C3_PredicatesExclusive ==
    Analyzed =>
        /\ ~(BullTrend /\ BullBreakoutPred /\ BullPullbackPred)
        /\ ~(BearTrend /\ BearBreakoutPred /\ BearPullbackPred)

\* C3 amended: the two predicates can hold together; the outcomes are
\* exclusive because the breakout is tested first: a frame satisfying both
\* is the breakout (long call +2, long put -2), and a spread is assigned
\* only to a frame that is not a breakout.
C3_OutcomesExclusive ==
    Analyzed =>
        /\ BullTrend /\ BullBreakoutPred /\ BullPullbackPred => IsLongCall
        /\ BearTrend /\ BearBreakoutPred /\ BearPullbackPred => IsLongPut
        /\ res.Score = 1 => ~BullBreakoutPred /\ BullPullbackPred
        /\ res.Score = -1 => ~BearBreakoutPred /\ BearPullbackPred

\* price=110, ma20=108, ma50=105, ma200=100, rsi=50, channel high 109: both
\* predicates hold and the record is the long call
C3_Witness ==
    /\ Analyzed /\ BullTrend /\ BullBreakoutPred /\ BullPullbackPred
    /\ df.price = 110 /\ df.ma20 = 108 /\ df.ma50 = 105 /\ df.ma200 = 100
    /\ df.rsi = 50 /\ df.prev_high_20 = 109
    /\ res.Score = 2 /\ res.Strikes = "$110 (ATM)"

\* C6 as stated: a frame with at least MA_LONG + 5 bars whose last close is
\* <= 0 yields no record.
C6_DegenerateSkipped ==
    (Analyzed /\ df.price <= 0) => res = None

(***************************************************************************)
(* Properties of anti_po_filter, checked under SpecFilter.                 *)
(***************************************************************************)
Filtered == pc = "done" /\ fargs # None
Readable == fargs.rsi_series # None /\ fargs.atr_series # None
VolFails == 100 * fargs.atr_series.last > 6 * fargs.price
OverboughtFails == fargs.direction = "bull" /\ fargs.rsi_series.last > 75
OversoldFails == fargs.direction = "bear" /\ fargs.rsi_series.last < 25
RsiReason ==
    IF OverboughtFails THEN "RSI Sobrecomprado (> 75)"
    ELSE IF OversoldFails THEN "RSI Sobrevendido (< 25)"
    ELSE "-"

\* C4: for price > 0 the filter rejects iff ATR/price > 0.06, or bull with
\* RSI > 75, or bear with RSI < 25; the reason lists exactly the failing
\* checks, and is "-" iff the candidate is approved.
C4_FilterChecks ==
    (Filtered /\ Readable /\ fargs.price > 0) =>
        /\ fret.ok <=> ~(VolFails \/ OverboughtFails \/ OversoldFails)
        /\ fret.reason =
             (IF VolFails /\ RsiReason # "-"
                 THEN "Volatilidade extrema (ATR% > 6%); " \o RsiReason
              ELSE IF VolFails THEN "Volatilidade extrema (ATR% > 6%)"
              ELSE RsiReason)
        /\ (fret.reason = "-") <=> fret.ok
        /\ fargs.direction = "bear" /\ ~VolFails /\ fargs.rsi_series.last > 75 => fret.ok
        /\ fargs.direction = "bull" /\ ~VolFails /\ fargs.rsi_series.last < 25 => fret.ok

\* a bull candidate failing both the volatility and the overbought check
C4_Witness ==
    /\ Filtered /\ Readable /\ fargs.price > 0
    /\ VolFails /\ OverboughtFails
    /\ ~fret.ok
    /\ fret.reason = "Volatilidade extrema (ATR% > 6%); RSI Sobrecomprado (> 75)"

\* C5 as stated: with the last close <= 0 the filter returns approved with
\* the filter-error reason, whatever direction, RSI and ATR are.
C5_FailOpenOnPrice ==
    (Filtered /\ fargs.price <= 0) => fret.ok /\ fret.reason = "Erro Filtro"

\* C5 amended: with the last close <= 0 nothing is raised; the ATR ratio is
\* taken as 0, so the volatility check never rejects, and the RSI check of
\* the direction still applies: approved with reason "-" unless that check
\* fails, rejected with the RSI reason when it does.  The filter-error
\* result is returned exactly when a series cannot be read.
C5_PriceGuard ==
    Filtered =>
        /\ Readable /\ fargs.price <= 0 =>
              /\ fret.ok <=> ~(OverboughtFails \/ OversoldFails)
              /\ fret.reason = RsiReason
        /\ ~Readable => fret.ok
        /\ (fret.reason = "Erro Filtro") <=> ~Readable

\* a bear candidate at price 0 with ATR above zero and RSI below 25 is rejected
C5_Witness ==
    /\ Filtered /\ Readable /\ fargs.price <= 0
    /\ fargs.atr_series.last > 0 /\ OversoldFails
    /\ ~fret.ok /\ fret.reason = "RSI Sobrevendido (< 25)"

(***************************************************************************)
(* Properties of the thermometer, checked under SpecThermo.                *)
(***************************************************************************)
\* rows of the frame with the given approval whose score lies in `scores`
RowsWith(ok, scores) ==
    SumOver(df_results, {k \in Kinds : k.Filtro_OK = ok /\ k.Score \in scores})
ApprovedRows == RowsWith(TRUE, {-2, -1, 0, 1, 2})
ApprovedBulls == RowsWith(TRUE, {1, 2})
ApprovedBears == RowsWith(TRUE, {-2, -1})
ApprovedScoreSum ==
    2 * RowsWith(TRUE, {2}) + RowsWith(TRUE, {1})
    - RowsWith(TRUE, {-1}) - 2 * RowsWith(TRUE, {-2})
InUnit(x) == -x.d <= x.n /\ x.n <= x.d

\* C7: for a non-empty set of approved records the aggregate is computed
\* from exactly those records; dir_balance = (bull - bear)/total,
\* avg_strength_norm = mean(score)/2 and m = 0.6*dir_balance +
\* 0.4*avg_strength_norm lie in [-1, 1], and (m + 1)*50 lies in [0, 100], so
\* the clamp leaves it unchanged.
C7_AggregateRanges ==
    (pc = "done" /\ ApprovedRows > 0) =>
        /\ tm # None
        /\ tm.total_sinais = ApprovedRows
        /\ tm.bull_count = ApprovedBulls /\ tm.bear_count = ApprovedBears
        /\ tm.dir_balance.n * ApprovedRows = (ApprovedBulls - ApprovedBears) * tm.dir_balance.d
        /\ tm.avg_strength_norm.n * 2 * ApprovedRows = ApprovedScoreSum * tm.avg_strength_norm.d
        /\ tm.m.n * 20 * ApprovedRows
             = (12 * (ApprovedBulls - ApprovedBears) + 4 * ApprovedScoreSum) * tm.m.d
        /\ tm.unclamped.n * tm.m.d = 50 * (tm.m.n + tm.m.d) * tm.unclamped.d
        /\ InUnit(tm.dir_balance) /\ InUnit(tm.avg_strength_norm) /\ InUnit(tm.m)
        /\ 0 <= tm.unclamped.n /\ tm.unclamped.n <= 100 * tm.unclamped.d
        /\ tm.tm_score = tm.unclamped

\* every approved record is a +2 and a rejected -2 record is in the frame:
\* the aggregate sits on the upper end of every range
C7_Witness ==
    /\ pc = "done" /\ tm # None
    /\ RowsWith(FALSE, {-2}) = 1 /\ ApprovedRows = 3 /\ RowsWith(TRUE, {2}) = 3
    /\ tm.dir_balance = Frac(1, 1) /\ tm.m = Frac(1, 1) /\ tm.tm_score = Frac(100, 1)

ByThresholds ==
    /\ (tm.label = "EUFORIA (ALTA FORTE)") <=> (tm.tm_score.n >= 80 * tm.tm_score.d)
    /\ (tm.label = "VIÉS DE ALTA")
         <=> (60 * tm.tm_score.d <= tm.tm_score.n /\ tm.tm_score.n < 80 * tm.tm_score.d)
    /\ (tm.label = "PÂNICO / BAIXA FORTE") <=> (tm.tm_score.n <= 20 * tm.tm_score.d)
    /\ (tm.label = "VIÉS DE BAIXA")
         <=> (20 * tm.tm_score.d < tm.tm_score.n /\ tm.tm_score.n <= 40 * tm.tm_score.d)
    /\ tm.label \in {"EUFORIA (ALTA FORTE)", "VIÉS DE ALTA", "PÂNICO / BAIXA FORTE",
                     "VIÉS DE BAIXA", "NEUTRO / EQUILIBRADO"}

\* C8 as stated: one label per score by the thresholds 80 / 60 / 20 / 40,
\* neutral otherwise, the neutral band being 41-59; 10 approved records
\* with 7 bull (mean +1.5) and 3 bear (mean -1) score 69.5, bullish bias.
C8_LabelBand41to59 ==
    (pc = "done" /\ tm # None) =>
        /\ ByThresholds
        /\ tm.label = "NEUTRO / EQUILIBRADO"
             => 41 * tm.tm_score.d <= tm.tm_score.n /\ tm.tm_score.n <= 59 * tm.tm_score.d
        /\ (ApprovedRows = 10 /\ ApprovedBulls = 7 /\ ApprovedBears = 3
            /\ 2 * (2 * RowsWith(TRUE, {2}) + RowsWith(TRUE, {1})) = 3 * 7
            /\ 2 * RowsWith(TRUE, {-2}) + RowsWith(TRUE, {-1}) = 3)
           => tm.tm_score = Frac(139, 2) /\ tm.label = "VIÉS DE ALTA"

\* C8 amended: one label per score by the thresholds 80 / 60 / 20 / 40, and
\* neutral exactly for 40 < score < 60 (41-59 among whole-number scores
\* only); 20 approved records with 14 bull (mean +1.5) and 6 bear (mean -1)
\* score 69.5, bullish bias.
C8_LabelOpenBand ==
    (pc = "done" /\ tm # None) =>
        /\ ByThresholds
        /\ (tm.label = "NEUTRO / EQUILIBRADO")
             <=> (40 * tm.tm_score.d < tm.tm_score.n /\ tm.tm_score.n < 60 * tm.tm_score.d)
        /\ tm.tm_score.d = 1
             => ((tm.label = "NEUTRO / EQUILIBRADO")
                    <=> (41 <= tm.tm_score.n /\ tm.tm_score.n <= 59))
        /\ (ApprovedRows = 20 /\ ApprovedBulls = 14 /\ ApprovedBears = 6
            /\ 2 * (2 * RowsWith(TRUE, {2}) + RowsWith(TRUE, {1})) = 3 * 14
            /\ 2 * RowsWith(TRUE, {-2}) + RowsWith(TRUE, {-1}) = 6)
           => tm.tm_score = Frac(139, 2) /\ tm.label = "VIÉS DE ALTA"

\* the 20-record example has been computed
C8_Witness ==
    /\ pc = "done" /\ tm # None
    /\ ApprovedRows = 20 /\ ApprovedBulls = 14 /\ ApprovedBears = 6
    /\ RowsWith(TRUE, {2}) = 7 /\ RowsWith(TRUE, {-1}) = 6
    /\ tm.dir_balance = Frac(2, 5) /\ tm.avg_strength_raw = Frac(3, 4)
    /\ tm.m = Frac(39, 100)
    /\ tm.tm_score = Frac(139, 2) /\ tm.label = "VIÉS DE ALTA"

(***************************************************************************)
(* Properties of the calendar, checked under SpecCalendar.                 *)
(***************************************************************************)
\* the Julian day number of a civil date; JDN % 7 = 0 on a Monday
JDN(y, m, d) ==
    LET a == (14 - m) \div 12
        yy == y + 4800 - a
        mm == m + 12 * a - 3
    IN  d + ((153 * mm + 2) \div 5) + 365 * yy + (yy \div 4) - (yy \div 100)
          + (yy \div 400) - 32045
TextJDN(t) == JDN(t[1], t[2], t[3])
Friday(t) == TextJDN(t) % 7 = 4
Wednesday(t) == TextJDN(t) % 7 = 2

\* the i-th covered month (i from 0), counted in months since year 0
CoveredYear(i) == (today.year * 12 + (today.month - 1) + i) \div 12
CoveredMonth(i) == ((today.year * 12 + (today.month - 1) + i) % 12) + 1
MonthLength(i) ==
    JDN(CoveredYear(i + 1), CoveredMonth(i + 1), 1) - JDN(CoveredYear(i), CoveredMonth(i), 1)
\* the position before the first event of covered month i: three events a
\* month and one more for every even index below i
Before(i) == 3 * i + ((i + 1) \div 2)
InMonth(t, i) ==
    /\ t[1] = CoveredYear(i) /\ t[2] = CoveredMonth(i)
    /\ 1 <= t[3] /\ t[3] <= MonthLength(i)

\* C9: the list covers exactly the months_ahead consecutive months from the
\* clock's month (December rolling into January of the next year); each
\* month holds Payroll on its first Friday, CPI on the Wednesday 7 days
\* after its first Wednesday, PCE on its last Friday and, for even loop
\* indices only, the rate decision on its third Wednesday; every date lies
\* in its own month.
C9_CalendarRules ==
    pc = "loaded" =>
        /\ Len(MACRO_EVENTS) = Before(months_ahead)
        /\ \A i \in 0..(months_ahead - 1) :
              LET payroll == MACRO_EVENTS[Before(i) + 1]
                  cpi == MACRO_EVENTS[Before(i) + 2]
                  pce == MACRO_EVENTS[Before(i) + 3]
              IN  /\ payroll.name = "Payroll" /\ payroll.impact = -2
                  /\ InMonth(payroll.date, i) /\ Friday(payroll.date)
                  /\ payroll.date[3] <= 7
                  /\ cpi.name = "CPI" /\ cpi.impact = -2
                  /\ InMonth(cpi.date, i) /\ Wednesday(cpi.date)
                  /\ 8 <= cpi.date[3] /\ cpi.date[3] <= 14
                  /\ pce.name = "PCE" /\ pce.impact = -2
                  /\ InMonth(pce.date, i) /\ Friday(pce.date)
                  /\ pce.date[3] > MonthLength(i) - 7
                  /\ IF i % 2 = 0
                     THEN LET fomc == MACRO_EVENTS[Before(i) + 4]
                          IN  /\ fomc.name = "Decisão de Juros (FOMC)" /\ fomc.impact = -3
                              /\ InMonth(fomc.date, i) /\ Wednesday(fomc.date)
                              /\ 15 <= fomc.date[3] /\ fomc.date[3] <= 21
                     ELSE Before(i + 1) = Before(i) + 3

\* generated on 28 December 2027 for six months: the list runs into 2028
\* and holds the events of the 29-day February
C9_Witness ==
    /\ pc = "loaded" /\ today = date(2027, 12, 28) /\ months_ahead = 6
    /\ Len(MACRO_EVENTS) = 21
    /\ MACRO_EVENTS[8] = [name |-> "Payroll", date |-> <<2028, 2, 4>>, impact |-> -2]
    /\ MACRO_EVENTS[10] = [name |-> "PCE", date |-> <<2028, 2, 25>>, impact |-> -2]
    /\ MACRO_EVENTS[11] = [name |-> "Decisão de Juros (FOMC)", date |-> <<2028, 2, 16>>,
                           impact |-> -3]

\* the reference date get_macro_alerts works with
Reference == IF current_date = None THEN today ELSE current_date
DaysUntil(i) ==
    TextJDN(MACRO_EVENTS[i].date) - JDN(Reference.year, Reference.month, Reference.day)
Due == {i \in 1..Len(MACRO_EVENTS) : 0 <= DaysUntil(i) /\ DaysUntil(i) <= 3}
\* the j-th smallest position of Due
DueAt(j) == CHOOSE i \in Due : Cardinality({k \in Due : k <= i}) = j

\* C10: the alerts are exactly the events with 0 <= days_until <= 3, each
\* once and with that number of days, in the order of the event list.
C10_AlertWindow ==
    pc = "done" =>
        /\ Len(alerts) = Cardinality(Due)
        /\ \A j \in 1..Len(alerts) :
              /\ alerts[j].event = <<MACRO_EVENTS[DueAt(j)].name, MACRO_EVENTS[DueAt(j)].date>>
              /\ alerts[j].days = DaysUntil(DueAt(j))

\* two events fall in the window, one 3 days and one 1 day ahead, while
\* other events of the list lie in the past and further ahead
C10_Witness ==
    /\ pc = "done" /\ current_date # None
    /\ Len(alerts) = 2 /\ alerts[1].days = 3 /\ alerts[2].days = 1
    /\ \E i \in 1..Len(MACRO_EVENTS) : DaysUntil(i) < 0
    /\ \E i \in 1..Len(MACRO_EVENTS) : DaysUntil(i) > 3

IsRateDecision(name) == name = "Decisão de Juros (FOMC)"

\* C11 as stated: the dates of the event list never decrease along the
\* list, and so the days of the alerts never decrease along the alerts.
C11_Chronological ==
    /\ pc \in {"loaded", "done"} =>
          \A k \in 1..(Len(MACRO_EVENTS) - 1) :
              TextJDN(MACRO_EVENTS[k].date) <= TextJDN(MACRO_EVENTS[k + 1].date)
    /\ pc = "done" =>
          \A j \in 1..(Len(alerts) - 1) : alerts[j].days <= alerts[j + 1].days

\* C11 amended: the list is chronological month by month and, within a
\* month, for Payroll, CPI and PCE; the rate decision is appended after the
\* PCE of its month although its date lies between that month's CPI and
\* PCE.  So dates increase along the list except at each rate decision, and
\* the days of the alerts do not decrease except where a rate-decision
\* alert follows the PCE alert of its month.
C11_ChronologicalButRateDecision ==
    /\ pc \in {"loaded", "done"} =>
          \A k \in 1..(Len(MACRO_EVENTS) - 1) :
              LET a == MACRO_EVENTS[k]
                  b == MACRO_EVENTS[k + 1]
              IN  IF IsRateDecision(b.name)
                  THEN /\ a.name = "PCE"
                       /\ TextJDN(b.date) < TextJDN(a.date)
                       /\ TextJDN(MACRO_EVENTS[k - 1].date) < TextJDN(b.date)
                       /\ k + 2 <= Len(MACRO_EVENTS)
                            => TextJDN(a.date) < TextJDN(MACRO_EVENTS[k + 2].date)
                  ELSE TextJDN(a.date) < TextJDN(b.date)
    /\ pc = "done" =>
          \A j \in 1..(Len(alerts) - 1) :
              \/ alerts[j].days <= alerts[j + 1].days
              \/ /\ alerts[j].event[1] = "PCE"
                 /\ IsRateDecision(alerts[j + 1].event[1])
                 /\ alerts[j].event[2][2] = alerts[j + 1].event[2][2]

\* the PCE alert, 3 days ahead, is listed before the rate decision of the
\* same month, 1 day ahead
C11_Witness ==
    /\ pc = "done" /\ Len(alerts) = 2
    /\ alerts[1].event[1] = "PCE" /\ alerts[1].days = 3
    /\ IsRateDecision(alerts[2].event[1]) /\ alerts[2].days = 1
    /\ alerts[1].event[2][2] = alerts[2].event[2][2]

\* the dates of the reference date's month and of the month after it
NearDates ==
    LET months == Reference.year * 12 + (Reference.month - 1)
    IN  {<<(months + i) \div 12, ((months + i) % 12) + 1, d>> : i \in 0..1, d \in 1..31}
LengthOfMonth(y, m) ==
    JDN((y * 12 + m) \div 12, ((y * 12 + m) % 12) + 1, 1) - JDN(y, m, 1)
\* the calendar rules: the event `name` falls on the date t
RuleDate(name, t) ==
    /\ t[3] <= LengthOfMonth(t[1], t[2])
    /\ CASE name = "Payroll" -> Friday(t) /\ t[3] <= 7
         [] name = "CPI" -> Wednesday(t) /\ 8 <= t[3] /\ t[3] <= 14
         [] name = "PCE" -> Friday(t) /\ t[3] > LengthOfMonth(t[1], t[2]) - 7
         [] IsRateDecision(name) ->
               /\ Wednesday(t) /\ 15 <= t[3] /\ t[3] <= 21
               /\ t[1] * 12 + t[2] >= today.year * 12 + today.month
               /\ ((t[1] * 12 + t[2]) - (today.year * 12 + today.month)) % 2 = 0
AheadOfReference(t) ==
    TextJDN(t) - JDN(Reference.year, Reference.month, Reference.day)

\* C13 as stated: with the list generated on the clock's date for six months
\* and a reference date not later than the clock's date, every Payroll, CPI,
\* PCE or rate-decision date of the calendar rules that lies 0 to 3 days
\* after the reference date is among the alerts, also when the reference
\* date lies in the month before the clock's month.
C13_AlertsComplete ==
    (/\ pc = "done" /\ months_ahead = 6
     /\ JDN(Reference.year, Reference.month, Reference.day)
            <= JDN(today.year, today.month, today.day))
    => \A name \in {"Payroll", "CPI", "PCE", "Decisão de Juros (FOMC)"} :
          \A t \in NearDates :
             (RuleDate(name, t) /\ 0 <= AheadOfReference(t) /\ AheadOfReference(t) <= 3)
             => \E j \in 1..Len(alerts) : alerts[j].event = <<name, t>>

(***************************************************************************)
(* Properties of the scan cycle (SpecScan).                                *)
(***************************************************************************)
\* the download holds, for instrument i, a series from which a record is made
Succeeds(i) ==
    /\ raw_data # None
    /\ ~raw_data.empty
    /\ raw_data.cols[i] # Absent
    /\ raw_data.cols[i].len >= MA_LONG + 5
    /\ "missing" \notin DOMAIN raw_data.cols[i]

\* the names of the instruments among the first n that succeed, in universe order
RECURSIVE SucceededUpTo(_)
SucceededUpTo(n) ==
    IF n = 0 THEN <<>>
    ELSE IF Succeeds(n) THEN Append(SucceededUpTo(n - 1), TICKERS[n])
    ELSE SucceededUpTo(n - 1)

\* the records are those of the given instruments, one each, in that order
RecordsOf(names) ==
    /\ Len(results) = Len(names)
    /\ \A j \in 1..Len(names) : results[j] # None /\ results[j].Ticker = names[j]

\* the number of instruments the loop has dealt with
Scanned ==
    IF pc = "start" \/ raw_data = None \/ raw_data.empty THEN 0
    ELSE IF pc = "loop" THEN ticker_i - 1
    ELSE NumTickers

\* C12: a scan cycle skips an instrument that yields no record (no column
\* group, empty series, fewer than MA_LONG + 5 bars, or a fault raised inside
\* its analysis) and goes on with the next one: at every point of the cycle
\* the result list holds, in universe order, exactly one record for each
\* instrument dealt with so far whose analysis succeeded and none for the
\* others, and the cycle always ends, with the list covering the whole universe.
C12_CycleCompletes ==
    /\ [](RecordsOf(SucceededUpTo(Scanned)))
    /\ <>[](pc = "done" /\ RecordsOf(SucceededUpTo(
                IF raw_data = None \/ raw_data.empty THEN 0 ELSE NumTickers)))

\* a finished cycle whose first instrument faulted inside its analysis and
\* whose third had too few bars: the list holds the record of the second alone
C12_Witness ==
    /\ pc = "done" /\ raw_data # None /\ ~raw_data.empty
    /\ Raises(raw_data.cols[1])
    /\ Succeeds(2)
    /\ raw_data.cols[3] # Absent /\ raw_data.cols[3].len = MA_LONG + 4
    /\ Len(results) = 1 /\ results[1].Ticker = TICKERS[2]

====
